---- MODULE Spec2Model ----
(***************************************************************************)
(* Model of the BigDefend AI alert pipeline: the transaction router that   *)
(* creates alerts (add_transaction), the alert router that changes their   *)
(* status (update_alert_status), the server's WebSocket ConnectionManager, *)
(* and the frontend hook useRealTimeData with the Alerts page on top.      *)
(* Beside it stand the frontend's AuthProvider, its Simulation page and    *)
(* the wsService singleton shared by the components that use the hook.     *)
(*                                                                         *)
(* The code keeps no version number on an alert.  The field "version" of   *)
(* an alert record below is a history field: it counts the commits of the  *)
(* row, rides along wherever the row is copied, and is read by no action.  *)
(* It exists so that the properties about versions can be stated at all.   *)
(***************************************************************************)
EXTENDS Integers, Sequences, FiniteSets, TLC

\* ------------------------------------------------------------------ bounds

MaxTx == 2          \* transactions posted to /transactions/add
MaxConns == 2       \* WebSocket connections ever opened
MaxTracked == 1     \* alerts whose status updates SpecUpdate follows
MaxEntries == 3     \* entries of the registry under direct calls to the manager
MaxVersion == 3     \* commits of a row that direct calls to the API go up to
MaxPending == 2     \* starts of a simulation waiting on the API at once
MaxIntervals == 2   \* progress timers the Simulation page has set and not cleared
MaxSockets == 3     \* WebSockets one frontend creates through wsService

\* --------------------------------------------------------------- constants

NoBank == 0         \* user.bankId undefined / payload without bankId
NoUser == 0         \* assigned_to None / assignedTo undefined
FraudThreshold == 80    \* fraud_threshold = 0.8, in percent

Clients == {"tabA", "tabB"}     \* browser tabs, each running useRealTimeData

\* The users table.  users.id is also what Transaction.banque_id and
\* Alert.banque_id refer to (ForeignKey("users.id")).
Users ==
    { [id |-> 1, role |-> "analyst", bankId |-> 1],
      [id |-> 2, role |-> "admin",   bankId |-> NoBank],
      [id |-> 3, role |-> "client",  bankId |-> 1],
      [id |-> 4, role |-> "auditor", bankId |-> 1] }

UserById(uid) == CHOOSE u \in Users : u.id = uid

\* Who is logged in on the two tabs: twice the analyst, the admin and the
\* analyst, the client and the user of an unknown role (either way round).
Logins ==
    { [c \in Clients |-> 1],
      [c \in Clients |-> IF c = "tabA" THEN 2 ELSE 1],
      [c \in Clients |-> IF c = "tabA" THEN 3 ELSE 4],
      [c \in Clients |-> IF c = "tabA" THEN 4 ELSE 3] }

\* TransactionCreate payloads that callers of /transactions/add send.
\* banque_id must name a users row; user_id is the account the transaction
\* belongs to (9: an account of none of the users above).
Events ==
    { [event |-> "E1", banque_id |-> 1, user_id |-> 9, amount |-> 9000],
      [event |-> "E2", banque_id |-> 3, user_id |-> 9, amount |-> 9000],
      [event |-> "E3", banque_id |-> 1, user_id |-> 3, amount |-> 10] }

\* predict_fraud: the model's probability for the payload, in percent.  The
\* model is opaque; here it scores by the amount.
predict_fraud(e) == IF e.amount > 1000 THEN 90 ELSE 80

Statuses == {"open", "investigating", "resolved", "false_positive"}

\* selectedAlert === null
NoAlert == [ id |-> 0 ]

\* user === null, an absent localStorage key's email, an absent token
LoggedOut == ""
NoEmail == ""
NoToken == [ kind |-> "none", sub |-> NoEmail ]

\* The progress timer's step and end.
ProgressStep == 10
ProgressEnd == 100

\* ------------------------------------------------------------------- state

VARIABLES
    transactions,        \* table transactions: sequence of rows, id = index
    alertsDb,            \* table alerts: sequence of rows, id = index
    active_connections,  \* ConnectionManager.active_connections: user id -> list of sockets
    conns,               \* every WebSocket ever opened: id -> [user, state]
    wsInbox,             \* per socket, frames sent by the server and not yet read
    fanout,              \* the running send_personal_message, or Idle
    clientUser,          \* per tab, the logged-in user (AuthContext.user)
    ws,                  \* per tab, wsService.ws: a socket id or 0
    alerts,              \* per tab, the hook's alerts state
    pull,                \* per tab, the loadInitialData in flight
    put,                 \* per tab, the updateAlert in flight
    lastCall,            \* the call a direct caller of the manager made last
    selectedAlert,       \* per tab, the Alerts page's selectedAlert, or NoAlert
    authUser,            \* AuthProvider's user: an email, or LoggedOut for null
    localStorage,        \* the keys auth_token and mock_user_email
    loginCall,           \* the login or initAuth in flight, and how the last one ended
    isRunning,           \* Simulation page: isRunning
    progress,            \* Simulation page: progress
    currentSimulationId, \* Simulation page: TRUE when an id is held
    intervals,           \* Simulation page: the setInterval timers not cleared
    simCall,             \* Simulation page: the handlers waiting on the API
    hooks,               \* the components whose useRealTimeData effect is in place
    wsService,           \* the wsService singleton: its ws and its listeners
    sockets              \* every WebSocket the frontend created: id -> readyState

authVars == << authUser, localStorage, loginCall >>

simVars == << isRunning, progress, currentSimulationId, intervals, simCall >>

hookVars == << hooks, wsService, sockets >>

liveVars == << transactions, alertsDb, active_connections, conns, wsInbox, fanout, clientUser, ws, alerts, pull, put,
               lastCall, selectedAlert >>

vars == << liveVars, authVars, simVars, hookVars >>

Idle == [state |-> "idle"]

\* ----------------------------------------------------------------- helpers

Range(s) == { s[i] : i \in 1..Len(s) }

RemoveAt(s, i) == [ j \in 1..(Len(s) - 1) |-> IF j < i THEN s[j] ELSE s[j + 1] ]

IndexOf(s, x) == CHOOSE i \in 1..Len(s) : s[i] = x /\ \A j \in 1..(i - 1) : s[j] # x

\* ------------------------------------------------------------------- Init

Init ==
    /\ transactions = << >>
    /\ alertsDb = << >>
    /\ active_connections = << >>
    /\ conns = << >>
    /\ wsInbox = << >>
    /\ fanout = Idle
    /\ clientUser \in Logins
    /\ ws = [c \in Clients |-> 0]
    /\ alerts = [c \in Clients |-> << >>]
    /\ pull = [c \in Clients |-> Idle]
    /\ put = [c \in Clients |-> Idle]
    /\ lastCall = [op |-> "none"]
    /\ selectedAlert = [c \in Clients |-> NoAlert]
    /\ authUser = LoggedOut
    /\ localStorage = [ auth_token |-> NoToken, mock_user_email |-> NoEmail ]
    /\ loginCall = Idle
    /\ isRunning = FALSE
    /\ progress = 0
    /\ currentSimulationId = FALSE
    /\ intervals = 0
    /\ simCall = [ starting |-> 0, stopping |-> 0, stopped |-> FALSE ]
    /\ hooks = {}
    /\ wsService = [ ws |-> 0, listeners |-> {} ]
    /\ sockets = << >>

\* ---------------------------------------------------- server: transactions

\* Alert(...) as add_transaction builds it; status takes the column default.
NewAlert(id, tx, score) ==
    [ id |-> id,
      transactionId |-> tx.id,
      bankId |-> tx.banque_id,
      fraudProbability |-> score,
      status |-> "open",
      assignedTo |-> NoUser,
      version |-> 1 ]

\* The "fraudAlert" frame's payload: the row without its banque_id.
AlertPayload(alert) == [ alert EXCEPT !.bankId = NoBank ]

\* send_personal_message up to its first await: nothing to do when the user
\* has no entry, else the iterator takes the first socket of the user's list.
\* The fields enumerated (the list as the loop found it) and attempted (the
\* sockets send_json has been called on) are history fields, read by no action.
StartSend(alert, user_id) ==
    IF user_id \in DOMAIN active_connections
    THEN [ state |-> "sending", alert |-> AlertPayload(alert), user_id |-> user_id,
           idx |-> 1, cur |-> active_connections[user_id][1], detached |-> FALSE,
           enumerated |-> active_connections[user_id], attempted |-> << >> ]
    ELSE Idle

\* POST /transactions/add with the frame sent for an alert that is not
\* written to the table.
add_transaction_unsaved(e) ==
    /\ Len(transactions) < MaxTx
    /\ fanout = Idle
    /\ LET score == predict_fraud(e)
           is_fraud == score > FraudThreshold
           tx == [ id |-> Len(transactions) + 1, event |-> e.event,
                   banque_id |-> e.banque_id, user_id |-> e.user_id,
                   is_fraud |-> is_fraud, fraud_probability |-> score ]
           alert == NewAlert(Len(alertsDb) + 1, tx, score)
       IN /\ transactions' = Append(transactions, tx)
          /\ fanout' = IF is_fraud THEN StartSend(alert, alert.bankId) ELSE fanout
    /\ UNCHANGED << alertsDb, active_connections, conns, wsInbox,
                    clientUser, ws, alerts, pull, put, lastCall, selectedAlert, authVars, simVars, hookVars >>

\* POST /transactions/add
add_transaction(e) ==
    /\ Len(transactions) < MaxTx
    /\ fanout = Idle
    /\ LET score == predict_fraud(e)
           is_fraud == score > FraudThreshold
           tx == [ id |-> Len(transactions) + 1, event |-> e.event,
                   banque_id |-> e.banque_id, user_id |-> e.user_id,
                   is_fraud |-> is_fraud, fraud_probability |-> score ]
           alert == NewAlert(Len(alertsDb) + 1, tx, score)
       IN /\ transactions' = Append(transactions, tx)
          /\ IF is_fraud
             THEN /\ alertsDb' = Append(alertsDb, alert)
                  /\ fanout' = StartSend(alert, alert.bankId)
             ELSE UNCHANGED << alertsDb, fanout >>
    /\ UNCHANGED << active_connections, conns, wsInbox,
                    clientUser, ws, alerts, pull, put, lastCall, selectedAlert, authVars, simVars, hookVars >>

\* POST /transactions/add when the alert's commit raises: the transaction's
\* own commit has gone through, the except branch answers 500.
add_transaction_fails(e) ==
    /\ Len(transactions) < MaxTx
    /\ LET score == predict_fraud(e)
           is_fraud == score > FraudThreshold
           tx == [ id |-> Len(transactions) + 1, event |-> e.event,
                   banque_id |-> e.banque_id, user_id |-> e.user_id,
                   is_fraud |-> is_fraud, fraud_probability |-> score ]
       IN /\ is_fraud
          /\ transactions' = Append(transactions, tx)
    /\ UNCHANGED << alertsDb, active_connections, conns, wsInbox, fanout,
                    clientUser, ws, alerts, pull, put, lastCall, selectedAlert, authVars, simVars, hookVars >>

\* The list object the running for-loop iterates: the user's live list, or
\* the emptied list that disconnect() has deleted from the dictionary.
IteratedList ==
    IF fanout.detached \/ fanout.user_id \notin DOMAIN active_connections
    THEN << >>
    ELSE active_connections[fanout.user_id]

\* send_personal_message: the pending send_json returns or raises, then the
\* loop takes the next socket of the list or ends.
send_personal_message ==
    /\ fanout.state = "sending"
    /\ LET k == fanout.cur
           ok == conns[k].state = "open"
           next == fanout.idx + 1
       IN /\ wsInbox' = IF ok THEN [wsInbox EXCEPT ![k] = Append(@, fanout.alert)]
                         ELSE wsInbox
          /\ fanout' = IF next <= Len(IteratedList)
                       THEN [fanout EXCEPT !.idx = next, !.cur = IteratedList[next],
                                           !.attempted = Append(@, k)]
                       ELSE Idle
    /\ UNCHANGED << transactions, alertsDb, active_connections, conns,
                    clientUser, ws, alerts, pull, put, lastCall, selectedAlert, authVars, simVars, hookVars >>

\* ------------------------------------------------ server: WebSocket manager

\* ConnectionManager.connect
ManagerConnect(reg, k, user_id) ==
    IF user_id \in DOMAIN reg
    THEN [reg EXCEPT ![user_id] = Append(@, k)]
    ELSE reg @@ (user_id :> << k >>)

\* disconnect without its membership test: a socket that no list holds
\* costs the first user their first socket.
DisconnectWithoutMembershipTest(reg, k) ==
    IF \E u \in DOMAIN reg : k \in Range(reg[u])
    THEN LET u == CHOOSE x \in DOMAIN reg : k \in Range(reg[x])
             rest == RemoveAt(reg[u], IndexOf(reg[u], k))
         IN IF rest = << >>
            THEN [ x \in (DOMAIN reg) \ {u} |-> reg[x] ]
            ELSE [reg EXCEPT ![u] = rest]
    ELSE IF DOMAIN reg = {}
    THEN reg
    ELSE LET u == CHOOSE x \in DOMAIN reg : TRUE
         IN IF Len(reg[u]) = 1
            THEN [ x \in (DOMAIN reg) \ {u} |-> reg[x] ]
            ELSE [reg EXCEPT ![u] = Tail(@)]

\* ConnectionManager.disconnect: remove the socket from the first list that
\* holds it, and drop the user's entry when the list is left empty.
ManagerDisconnect(reg, k) ==
    LET holders == { u \in DOMAIN reg : k \in Range(reg[u]) }
    IN IF holders = {}
       THEN reg
       ELSE LET u == CHOOSE x \in holders : TRUE
                rest == RemoveAt(reg[u], IndexOf(reg[u], k))
            IN IF rest = << >>
               THEN [ x \in (DOMAIN reg) \ {u} |-> reg[x] ]
               ELSE [reg EXCEPT ![u] = rest]

\* get_websocket_user: the user the token in the query string resolves to,
\* or none (401) when the token is missing or invalid.
get_websocket_user(k) == conns[k].user

\* The endpoint without its Depends(get_websocket_user): every socket is
\* accepted and registered, under whatever id it came with.
EndpointWithoutAuth(k) ==
    /\ k \in DOMAIN conns
    /\ conns[k].state = "connecting"
    /\ conns' = [conns EXCEPT ![k].state = "open"]
    /\ active_connections' = ManagerConnect(active_connections, k, conns[k].user)
    /\ UNCHANGED << transactions, alertsDb, wsInbox, fanout,
                    clientUser, ws, alerts, pull, put, lastCall, selectedAlert, authVars, simVars, hookVars >>

\* websocket_endpoint up to its receive loop: get_websocket_user has
\* resolved the token, the socket is accepted and registered.
websocket_endpoint(k) ==
    /\ k \in DOMAIN conns
    /\ conns[k].state = "connecting"
    /\ get_websocket_user(k) # NoUser
    /\ conns' = [conns EXCEPT ![k].state = "open"]
    /\ active_connections' = ManagerConnect(active_connections, k, get_websocket_user(k))
    /\ UNCHANGED << transactions, alertsDb, wsInbox, fanout,
                    clientUser, ws, alerts, pull, put, lastCall, selectedAlert, authVars, simVars, hookVars >>

\* websocket_endpoint's dependency raises 401: the handshake is refused and
\* the endpoint's body never runs.
websocket_rejected(k) ==
    /\ k \in DOMAIN conns
    /\ conns[k].state = "connecting"
    /\ get_websocket_user(k) = NoUser
    /\ conns' = [conns EXCEPT ![k].state = "closed"]
    /\ UNCHANGED << transactions, alertsDb, active_connections, wsInbox, fanout,
                    clientUser, ws, alerts, pull, put, lastCall, selectedAlert, authVars, simVars, hookVars >>

\* A peer that is none of the tabs opens /ws with no token or an invalid one.
connect_without_token ==
    /\ Len(conns) < MaxConns
    /\ conns' = Append(conns, [ user |-> NoUser, state |-> "connecting" ])
    /\ wsInbox' = Append(wsInbox, << >>)
    /\ UNCHANGED << transactions, alertsDb, active_connections, fanout,
                    clientUser, ws, alerts, pull, put, lastCall, selectedAlert, authVars, simVars, hookVars >>

RegisteredIn(reg, k) == \E u \in DOMAIN reg : k \in Range(reg[u])

Registered(k) == \E u \in DOMAIN active_connections : k \in Range(active_connections[u])

\* websocket_endpoint's finally: receive_text raised on a closed socket.
websocket_closed(k) ==
    /\ k \in DOMAIN conns
    /\ conns[k].state = "closed"
    /\ Registered(k)
    /\ active_connections' = ManagerDisconnect(active_connections, k)
    /\ fanout' = IF /\ fanout.state = "sending"
                    /\ fanout.user_id \notin DOMAIN active_connections'
                 THEN [fanout EXCEPT !.detached = TRUE]
                 ELSE fanout
    /\ UNCHANGED << transactions, alertsDb, conns, wsInbox,
                    clientUser, ws, alerts, pull, put, lastCall, selectedAlert, authVars, simVars, hookVars >>
\* ------------------------------------------------------ server: alert router

\* get_analyst_or_admin_user
get_analyst_or_admin_user(current_user) == current_user.role \in {"analyst", "admin"}

\* AlertUpdate as pydantic reads the request body: api.ts sends the keys
\* status and assignedTo, the schema has status and assigned_to, and a key
\* the schema does not know is ignored.
AlertUpdate(body) == [ status |-> body.status, assigned_to |-> NoUser ]

\* update_alert_status between the query and the commit.
UpdatedRow(row, alert_update) ==
    [ row EXCEPT
        !.status = IF alert_update.status # "" THEN alert_update.status ELSE @,
        !.assignedTo = IF alert_update.assigned_to # NoUser
                       THEN alert_update.assigned_to ELSE @,
        !.version = @ + 1 ]

\* PUT /alerts/{alert_id}/status: the response it produces.
update_alert_status_response(req) ==
    IF ~ get_analyst_or_admin_user(UserById(req.user))
    THEN [ code |-> 403 ]
    ELSE IF req.alertId \notin DOMAIN alertsDb
    THEN [ code |-> 404 ]
    ELSE [ code |-> 200,
           alert |-> UpdatedRow(alertsDb[req.alertId], AlertUpdate(req.body)) ]

\* PUT /alerts/{alert_id}/status
update_alert_status(c) ==
    /\ put[c].state = "requested"
    /\ LET resp == update_alert_status_response(put[c])
       IN /\ put' = [put EXCEPT ![c] = [@ EXCEPT !.state = "responded"] @@ [resp |-> resp]]
          /\ alertsDb' = IF resp.code = 200
                         THEN [alertsDb EXCEPT ![put[c].alertId] = resp.alert]
                         ELSE alertsDb
    /\ UNCHANGED << transactions, active_connections, conns, wsInbox, fanout, clientUser, ws, alerts, pull, lastCall, selectedAlert, authVars, simVars, hookVars >>

\* GET /alerts/bank/{bankId} and GET /alerts: all rows of the bank, or all
\* rows, for whoever asks.
get_alerts(bankId) ==
    IF bankId # NoBank
    THEN SelectSeq(alertsDb, LAMBDA a : a.bankId = bankId)
    ELSE alertsDb

ServeGetAlerts(c) ==
    /\ pull[c].state = "requested"
    /\ pull' = [pull EXCEPT ![c] = [ state |-> "responded", ok |-> TRUE,
                                     body |-> get_alerts(pull[c].bankId),
                                     bankId |-> pull[c].bankId ]]
    /\ UNCHANGED << transactions, alertsDb, active_connections, conns, wsInbox, fanout, clientUser, ws, alerts, put, lastCall, selectedAlert, authVars, simVars, hookVars >>

\* A request that the API does not answer with 2xx (the backend is down or
\* answers 5xx): axios rejects.
GetAlertsFails(c) ==
    /\ pull[c].state = "requested"
    /\ pull' = [pull EXCEPT ![c] = [ state |-> "responded", ok |-> FALSE,
                                     body |-> << >>, bankId |-> pull[c].bankId ]]
    /\ UNCHANGED << transactions, alertsDb, active_connections, conns, wsInbox, fanout,
                    clientUser, ws, alerts, put, lastCall, selectedAlert, authVars, simVars, hookVars >>

UpdateAlertStatusFails(c) ==
    /\ put[c].state = "requested"
    /\ put' = [put EXCEPT ![c] = [@ EXCEPT !.state = "responded"]
                                  @@ [resp |-> [code |-> 500]]]
    /\ UNCHANGED << transactions, alertsDb, active_connections, conns, wsInbox, fanout,
                    clientUser, ws, alerts, pull, lastCall, selectedAlert, authVars, simVars, hookVars >>

\* ------------------------------------------------------- client: mock data

\* mockTransactions, as far as generateMockAlerts reads them.
MockTransactions ==
    << [ id |-> 101, bankId |-> 1, fraudProbability |-> 96 ],
       [ id |-> 102, bankId |-> 2, fraudProbability |-> 75 ],
       [ id |-> 103, bankId |-> 1, fraudProbability |-> 60 ] >>

\* generateMockAlerts
generateMockAlerts(txs) ==
    LET flagged == SelectSeq(txs, LAMBDA tx : tx.fraudProbability > 70)
    IN [ index \in 1..Len(flagged) |->
           [ id |-> 200 + index,
             transactionId |-> flagged[index].id,
             bankId |-> flagged[index].bankId,
             fraudProbability |-> flagged[index].fraudProbability,
             status |-> IF flagged[index].fraudProbability > 95
                        THEN "investigating" ELSE "open",
             assignedTo |-> NoUser,
             version |-> 1 ] ]

mockAlerts == generateMockAlerts(MockTransactions)

\* ------------------------------------------------- client: useRealTimeData

\* loadInitialData: the bankId it asks for.
PullBankId(user) == IF user.role = "admin" THEN NoBank ELSE user.bankId

\* loadInitialData's catch branch: the mock alerts of the bank, or all.
filteredAlerts(bankId) ==
    IF bankId # NoBank
    THEN SelectSeq(mockAlerts, LAMBDA alert : alert.bankId = bankId)
    ELSE mockAlerts

\* The effect without its call of loadInitialData: the socket is opened and
\* nothing is pulled.
MountWithoutPull(c) ==
    /\ ws[c] = 0
    /\ Len(conns) < MaxConns
    /\ pull[c].state = "idle"
    /\ conns' = Append(conns, [ user |-> clientUser[c], state |-> "connecting" ])
    /\ wsInbox' = Append(wsInbox, << >>)
    /\ ws' = [ws EXCEPT ![c] = Len(conns) + 1]
    /\ UNCHANGED << transactions, alertsDb, active_connections, fanout,
                    clientUser, alerts, pull, put, lastCall, selectedAlert, authVars, simVars, hookVars >>

\* The effect of useRealTimeData for a token of the real backend: the
\* listeners are registered, wsService.connect opens a socket and
\* loadInitialData sends its requests.
Mount(c) ==
    /\ ws[c] = 0
    /\ Len(conns) < MaxConns
    /\ pull[c].state = "idle"
    /\ conns' = Append(conns, [ user |-> clientUser[c], state |-> "connecting" ])
    /\ wsInbox' = Append(wsInbox, << >>)
    /\ ws' = [ws EXCEPT ![c] = Len(conns) + 1]
    /\ pull' = [pull EXCEPT ![c] = [ state |-> "requested",
                                     bankId |-> PullBankId(UserById(clientUser[c])) ]]
    /\ UNCHANGED << transactions, alertsDb, active_connections, fanout,
                    clientUser, alerts, put, lastCall, selectedAlert, authVars, simVars, hookVars >>

\* The effect's cleanup, with the component gone: the listeners are removed,
\* wsService.disconnect closes the socket, and what is still in flight finds
\* no state to set.
Unmount(c) ==
    /\ ws[c] # 0
    /\ conns' = [conns EXCEPT ![ws[c]].state = "closed"]
    /\ wsInbox' = [wsInbox EXCEPT ![ws[c]] = << >>]
    /\ ws' = [ws EXCEPT ![c] = 0]
    /\ alerts' = [alerts EXCEPT ![c] = << >>]
    /\ pull' = [pull EXCEPT ![c] = Idle]
    /\ put' = [put EXCEPT ![c] = IF @.state = "requested"
                                 THEN [@ EXCEPT !.live = FALSE] ELSE Idle]
    /\ selectedAlert' = [selectedAlert EXCEPT ![c] = NoAlert]
    /\ UNCHANGED << transactions, alertsDb, active_connections, fanout, clientUser, lastCall, authVars, simVars, hookVars >>

\* loadInitialData after the await: setAlerts(alts), or the mock fallback.
loadInitialData(c) ==
    /\ pull[c].state = "responded"
    /\ alerts' = [alerts EXCEPT ![c] = IF pull[c].ok THEN pull[c].body
                                       ELSE filteredAlerts(pull[c].bankId)]
    /\ pull' = [pull EXCEPT ![c] = [ state |-> "done" ]]
    /\ UNCHANGED << transactions, alertsDb, active_connections, conns, wsInbox, fanout, clientUser, ws, put, lastCall, selectedAlert, authVars, simVars, hookVars >>

\* ws.onmessage -> handleMessage -> emit('fraudAlert') -> handleFraudAlert
handleFraudAlert(c) ==
    /\ ws[c] # 0
    /\ conns[ws[c]].state = "open"
    /\ wsInbox[ws[c]] # << >>
    /\ alerts' = [alerts EXCEPT ![c] = << Head(wsInbox[ws[c]]) >> \o @]
    /\ wsInbox' = [wsInbox EXCEPT ![ws[c]] = Tail(@)]
    /\ UNCHANGED << transactions, alertsDb, active_connections, conns, fanout, clientUser, ws, pull, put, lastCall, selectedAlert, authVars, simVars, hookVars >>

\* ------------------------------------------------------ client: Alerts page

\* The buttons the Alerts page renders for an alert of this status.
Buttons(status) ==
    CASE status = "open" -> {"investigating"}
      [] status = "investigating" -> {"resolved", "false_positive"}
      [] OTHER -> {}

\* The routes App.tsx gives a user: the Alerts page is for admin and analyst.
HasAlertsPage(user) == user.role \in {"admin", "analyst"}

\* Alerts.handleUpdateStatus -> updateAlert up to the await: a click on a
\* button of the i-th alert of the list. The open modal's overlay covers
\* the list.
handleUpdateStatus(c, i, status) ==
    /\ ws[c] # 0
    /\ selectedAlert[c] = NoAlert
    /\ HasAlertsPage(UserById(clientUser[c]))
    /\ put[c].state = "idle"
    /\ i \in 1..Len(alerts[c])
    /\ status \in Buttons(alerts[c][i].status)
    /\ put' = [put EXCEPT ![c] =
                 [ state |-> "requested", alertId |-> alerts[c][i].id,
                   body |-> [ status |-> status, assignedTo |-> clientUser[c] ],
                   user |-> clientUser[c],
                   expectedVersion |-> alerts[c][i].version,
                   seenStatus |-> alerts[c][i].status,
                   live |-> TRUE ]]
    /\ UNCHANGED << transactions, alertsDb, active_connections, conns, wsInbox, fanout, clientUser, ws, alerts, pull, lastCall, selectedAlert, authVars, simVars, hookVars >>

\* updateAlert's two setAlerts: the returned alert replaces the entries of
\* that id, or, in the catch branch, the requested change is made locally.
AppliedUpdate(list, req) ==
    IF req.resp.code = 200
    THEN [ i \in 1..Len(list) |->
             IF list[i].id = req.alertId THEN req.resp.alert ELSE list[i] ]
    ELSE [ i \in 1..Len(list) |->
             IF list[i].id = req.alertId
             THEN [ list[i] EXCEPT !.status = req.body.status,
                                   !.assignedTo = req.body.assignedTo ]
             ELSE list[i] ]

\* updateAlert after the await.
updateAlert(c) ==
    /\ put[c].state = "responded"
    /\ alerts' = [alerts EXCEPT ![c] = IF put[c].live THEN AppliedUpdate(@, put[c]) ELSE @]
    /\ put' = [put EXCEPT ![c] = Idle]
    /\ UNCHANGED << transactions, alertsDb, active_connections, conns, wsInbox, fanout, clientUser, ws, pull, lastCall, selectedAlert, authVars, simVars, hookVars >>

\* The eye button of the i-th alert of the list: setSelectedAlert(alert)
\* keeps the entry as it is at the click.
setSelectedAlert(c, i) ==
    /\ ws[c] # 0
    /\ selectedAlert[c] = NoAlert
    /\ HasAlertsPage(UserById(clientUser[c]))
    /\ i \in 1..Len(alerts[c])
    /\ selectedAlert' = [selectedAlert EXCEPT ![c] = alerts[c][i]]
    /\ UNCHANGED << transactions, alertsDb, active_connections, conns, wsInbox, fanout, clientUser, ws, alerts, pull, put, lastCall, authVars, simVars, hookVars >>

\* The modal's close button: setSelectedAlert(null)
closeModal(c) ==
    /\ selectedAlert[c] # NoAlert
    /\ selectedAlert' = [selectedAlert EXCEPT ![c] = NoAlert]
    /\ UNCHANGED << transactions, alertsDb, active_connections, conns, wsInbox, fanout, clientUser, ws, alerts, pull, put, lastCall, authVars, simVars, hookVars >>

\* An action button of the detail modal: the buttons are those of
\* selectedAlert.status, the click calls handleUpdateStatus with
\* selectedAlert.id and closes the modal.
modalUpdateStatus(c, status) ==
    /\ selectedAlert[c] # NoAlert
    /\ put[c].state = "idle"
    /\ status \in Buttons(selectedAlert[c].status)
    /\ put' = [put EXCEPT ![c] =
                 [ state |-> "requested", alertId |-> selectedAlert[c].id,
                   body |-> [ status |-> status, assignedTo |-> clientUser[c] ],
                   user |-> clientUser[c],
                   expectedVersion |-> selectedAlert[c].version,
                   seenStatus |-> selectedAlert[c].status,
                   live |-> TRUE ]]
    /\ selectedAlert' = [selectedAlert EXCEPT ![c] = NoAlert]
    /\ UNCHANGED << transactions, alertsDb, active_connections, conns, wsInbox, fanout, clientUser, ws, alerts, pull, lastCall, authVars, simVars, hookVars >>

\* -------------------------------------------------------------------- Next

Tabs1 == {"tabA"}

\* The whole system.
Next ==
    \/ \E e \in Events : add_transaction(e)
    \/ \E e \in Events : add_transaction_fails(e)
    \/ send_personal_message
    \/ \E k \in 1..MaxConns : websocket_endpoint(k)
    \/ \E k \in 1..MaxConns : websocket_closed(k)
    \/ \E k \in 1..MaxConns : websocket_rejected(k)
    \/ connect_without_token
    \/ \E c \in Clients : update_alert_status(c)
    \/ \E c \in Clients : UpdateAlertStatusFails(c)
    \/ \E c \in Clients : ServeGetAlerts(c)
    \/ \E c \in Clients : GetAlertsFails(c)
    \/ \E c \in Clients : Mount(c)
    \/ \E c \in Clients : Unmount(c)
    \/ \E c \in Clients : loadInitialData(c)
    \/ \E c \in Clients : handleFraudAlert(c)
    \/ \E c \in Clients, i \in 1..(MaxTx + 2), status \in Statuses : handleUpdateStatus(c, i, status)
    \/ \E c \in Clients : updateAlert(c)

Spec == Init /\ [][Next]_vars

\* The alert lifecycle: ingestion up to MaxTracked alerts, the pull of both
\* tabs and their status updates; no tab's socket is accepted, so nothing
\* is pushed.
NextUpdate ==
    \/ \E e \in Events : Len(alertsDb) < MaxTracked /\ add_transaction(e)
    \/ \E c \in Clients : update_alert_status(c)
    \/ \E c \in Clients : UpdateAlertStatusFails(c)
    \/ \E c \in Clients : ServeGetAlerts(c)
    \/ \E c \in Clients : Mount(c)
    \/ \E c \in Clients : loadInitialData(c)
    \/ \E c \in Clients, i \in 1..(MaxTx + 2), status \in Statuses : handleUpdateStatus(c, i, status)
    \/ \E c \in Clients : updateAlert(c)

SpecUpdate == Init /\ [][NextUpdate]_vars

\* The push path: ingestion, the connection registry and the fan-out, with
\* both tabs connecting and leaving; no pull is answered.
NextPush ==
    \/ \E e \in Events : add_transaction(e)
    \/ \E e \in Events : add_transaction_fails(e)
    \/ send_personal_message
    \/ \E k \in 1..MaxConns : websocket_endpoint(k)
    \/ \E k \in 1..MaxConns : websocket_closed(k)
    \/ \E k \in 1..MaxConns : websocket_rejected(k)
    \/ connect_without_token
    \/ \E c \in Clients : Mount(c)
    \/ \E c \in Clients : Unmount(c)
    \/ \E c \in Clients : handleFraudAlert(c)

SpecPush == Init /\ [][NextPush]_vars

\* One tab's view: its pull and the pushes to it, against ingestion.
NextSync ==
    \/ \E e \in Events : add_transaction(e)
    \/ send_personal_message
    \/ \E k \in 1..MaxConns : websocket_endpoint(k)
    \/ \E k \in 1..MaxConns : websocket_closed(k)
    \/ \E c \in Tabs1 : ServeGetAlerts(c)
    \/ \E c \in Tabs1 : GetAlertsFails(c)
    \/ \E c \in Tabs1 : Mount(c)
    \/ \E c \in Tabs1 : Unmount(c)
    \/ \E c \in Tabs1 : loadInitialData(c)
    \/ \E c \in Tabs1 : handleFraudAlert(c)

SpecSync == Init /\ [][NextSync]_vars

\* One tab on the Alerts page with its list buttons and its detail modal.
NextAlertsPage ==
    \/ \E e \in Events : add_transaction(e)
    \/ \E c \in Tabs1 : update_alert_status(c)
    \/ \E c \in Tabs1 : UpdateAlertStatusFails(c)
    \/ \E c \in Tabs1 : ServeGetAlerts(c)
    \/ \E c \in Tabs1 : Mount(c)
    \/ \E c \in Tabs1 : loadInitialData(c)
    \/ \E c \in Tabs1, i \in 1..(MaxTx + 2), status \in Statuses : handleUpdateStatus(c, i, status)
    \/ \E c \in Tabs1 : updateAlert(c)
    \/ \E c \in Tabs1, i \in 1..(MaxTx + 2) : setSelectedAlert(c, i)
    \/ \E c \in Tabs1 : closeModal(c)
    \/ \E c \in Tabs1, status \in Statuses : modalUpdateStatus(c, status)

SpecAlertsPage == Init /\ [][NextAlertsPage]_vars

\* ------------------------------------------------ the API, called directly

\* PUT /alerts/{alert_id}/status sent with the user's token by something
\* other than the Alerts page (a script, another client): any alert id and
\* any status, assigned_to left out, and no hook waiting for the answer.
Callers == {"tabB"}

AlertIds == 1..(MaxTx + 1)

api_put(c, alert_id, status) ==
    /\ ws[c] = 0
    /\ put[c].state = "idle"
    /\ \A a \in DOMAIN alertsDb : alertsDb[a].version < MaxVersion
    /\ put' = [put EXCEPT ![c] =
                 [ state |-> "requested", alertId |-> alert_id,
                   body |-> [ status |-> status, assignedTo |-> NoUser ],
                   user |-> clientUser[c],
                   expectedVersion |-> 0,
                   seenStatus |-> "",
                   live |-> FALSE ]]
    /\ UNCHANGED << transactions, alertsDb, active_connections, conns, wsInbox, fanout,
                    clientUser, ws, alerts, pull, lastCall, selectedAlert, authVars, simVars, hookVars >>

\* The alert router under direct calls.
NextApi ==
    \/ \E e \in Events : add_transaction(e)
    \/ \E c \in Callers, alert_id \in AlertIds, status \in Statuses : api_put(c, alert_id, status)
    \/ \E c \in Callers : update_alert_status(c)
    \/ \E c \in Callers : UpdateAlertStatusFails(c)
    \/ \E c \in Callers : updateAlert(c)

SpecApi == Init /\ [][NextApi]_vars

\* One tab on the Alerts page, with every alert that ingestion creates and
\* the frames pushed to the tab.
NextFrame ==
    \/ \E e \in Events : add_transaction(e)
    \/ send_personal_message
    \/ \E k \in 1..MaxConns : websocket_endpoint(k)
    \/ \E c \in Tabs1 : update_alert_status(c)
    \/ \E c \in Tabs1 : UpdateAlertStatusFails(c)
    \/ \E c \in Tabs1 : ServeGetAlerts(c)
    \/ \E c \in Tabs1 : Mount(c)
    \/ \E c \in Tabs1 : loadInitialData(c)
    \/ \E c \in Tabs1 : handleFraudAlert(c)
    \/ \E c \in Tabs1, i \in 1..(MaxTx + 2), status \in Statuses : handleUpdateStatus(c, i, status)
    \/ \E c \in Tabs1 : updateAlert(c)

SpecFrame == Init /\ [][NextFrame]_vars

\* ------------------------------------------- the manager, called directly

\* The ConnectionManager on its own: a caller that holds sockets 1..MaxConns
\* calls connect and disconnect in any order, with any socket and user id.
Entries(reg) == { << u, i >> \in (DOMAIN reg) \X (1..MaxEntries) : i <= Len(reg[u]) }

CallerUserIds == {1, 2}

connect_call(k, user_id) ==
    /\ Cardinality(Entries(active_connections)) < MaxEntries
    /\ active_connections' = ManagerConnect(active_connections, k, user_id)
    /\ lastCall' = [ op |-> "connect", socket |-> k,
                     present |-> RegisteredIn(active_connections, k) ]
    /\ UNCHANGED << transactions, alertsDb, conns, wsInbox, fanout,
                    clientUser, ws, alerts, pull, put, selectedAlert, authVars, simVars, hookVars >>

disconnect_call(k) ==
    /\ active_connections' = ManagerDisconnect(active_connections, k)
    /\ lastCall' = [ op |-> "disconnect", socket |-> k,
                     present |-> RegisteredIn(active_connections, k) ]
    /\ UNCHANGED << transactions, alertsDb, conns, wsInbox, fanout,
                    clientUser, ws, alerts, pull, put, selectedAlert, authVars, simVars, hookVars >>

NextManager ==
    \/ \E k \in 1..MaxConns, user_id \in CallerUserIds : connect_call(k, user_id)
    \/ \E k \in 1..MaxConns : disconnect_call(k)

SpecManager == Init /\ [][NextManager]_vars

\* ------------------------------------------------- client: AuthProvider

\* The addresses typed into the login form, and the passwords.
Emails == {"analyst@bnp.fr", "auditor@bnp.fr", "nobody@bnp.fr"}
Passwords == {"s3cret", "demo123", "wrong"}

\* The backend's user table: email -> password.
BackendAccounts == [ e \in {"analyst@bnp.fr", "auditor@bnp.fr"} |-> "s3cret" ]

\* mockUsers, by email.
mockUsers == {"admin@bigdefend.ai", "analyst@bnp.fr", "client@bnp.fr"}

\* The statuses a failing request ends with: rejected by the backend, or no
\* usable answer (5xx, network).
FailureStatuses == {"401", "error"}

\* fastapi_users' check of /auth/jwt/login
BackendVerifies(email, password) ==
    /\ email \in DOMAIN BackendAccounts
    /\ BackendAccounts[email] = password

\* api.interceptors.response: a 401 removes auth_token before the promise
\* rejects.
ResponseInterceptor(store, status) ==
    IF status = "401" THEN [ store EXCEPT !.auth_token = NoToken ] ELSE store

\* AuthProvider.login up to its first await. The Login page is rendered
\* only while nobody is authenticated.
login(email, password) ==
    /\ authUser = LoggedOut
    /\ loginCall.state \notin {"login", "me", "init"}
    /\ loginCall' = [ state |-> "login", email |-> email, password |-> password,
                      verified |-> FALSE ]
    /\ UNCHANGED << liveVars, authUser, localStorage, simVars, hookVars >>

\* login's catch branch: the mock user of that email with password demo123
\* is logged in, anything else throws.
LoginCatch(store) ==
    IF loginCall.email \in mockUsers /\ loginCall.password = "demo123"
    THEN /\ localStorage' = [ auth_token |-> [ kind |-> "mock", sub |-> loginCall.email ],
                              mock_user_email |-> loginCall.email ]
         /\ authUser' = loginCall.email
         /\ loginCall' = [ loginCall EXCEPT !.state = "done" ]
    ELSE /\ localStorage' = store
         /\ authUser' = authUser
         /\ loginCall' = [ loginCall EXCEPT !.state = "thrown" ]

\* authAPI.login resolves: the token is stored and getCurrentUser is sent.
authAPI_login_resolves ==
    /\ loginCall.state = "login"
    /\ BackendVerifies(loginCall.email, loginCall.password)
    /\ localStorage' = [ localStorage EXCEPT
                           !.auth_token = [ kind |-> "jwt", sub |-> loginCall.email ] ]
    /\ loginCall' = [ loginCall EXCEPT !.state = "me", !.verified = TRUE ]
    /\ UNCHANGED << liveVars, authUser, simVars, hookVars >>

\* authAPI.login rejects: 401 for credentials the backend does not verify,
\* or no usable answer whatever the credentials.
authAPI_login_rejects(status) ==
    /\ loginCall.state = "login"
    /\ status = "401" => ~BackendVerifies(loginCall.email, loginCall.password)
    /\ LoginCatch(ResponseInterceptor(localStorage, status))
    /\ UNCHANGED << liveVars, simVars, hookVars >>

\* login's getCurrentUser resolves: setUser(currentUser).
login_getCurrentUser_resolves ==
    /\ loginCall.state = "me"
    /\ authUser' = loginCall.email
    /\ loginCall' = [ loginCall EXCEPT !.state = "done" ]
    /\ UNCHANGED << liveVars, localStorage, simVars, hookVars >>

\* login's getCurrentUser rejects.
login_getCurrentUser_rejects(status) ==
    /\ loginCall.state = "me"
    /\ LoginCatch(ResponseInterceptor(localStorage, status))
    /\ UNCHANGED << liveVars, simVars, hookVars >>

\* logout
logout ==
    /\ authUser # LoggedOut
    /\ localStorage' = [ auth_token |-> NoToken, mock_user_email |-> NoEmail ]
    /\ authUser' = LoggedOut
    /\ UNCHANGED << liveVars, loginCall, simVars, hookVars >>

\* The page is loaded again (by the user, or by the interceptor's
\* window.location.href): the provider starts with user null and initAuth
\* runs up to its await, or to its end when there is no token.
initAuth ==
    /\ authUser' = LoggedOut
    /\ loginCall' = IF localStorage.auth_token # NoToken THEN [ state |-> "init" ] ELSE Idle
    /\ UNCHANGED << liveVars, localStorage, simVars, hookVars >>

\* initAuth's getCurrentUser resolves: the backend knows the token.
initAuth_getCurrentUser_resolves ==
    /\ loginCall.state = "init"
    /\ localStorage.auth_token.kind = "jwt"
    /\ authUser' = localStorage.auth_token.sub
    /\ loginCall' = Idle
    /\ UNCHANGED << liveVars, localStorage, simVars, hookVars >>

\* initAuth's getCurrentUser rejects: the mock user of mock_user_email is
\* set, or both keys are removed.
initAuth_getCurrentUser_rejects(status) ==
    /\ loginCall.state = "init"
    /\ LET store == ResponseInterceptor(localStorage, status)
       IN IF store.mock_user_email \in mockUsers
          THEN /\ authUser' = store.mock_user_email
               /\ localStorage' = store
          ELSE /\ authUser' = authUser
               /\ localStorage' = [ auth_token |-> NoToken, mock_user_email |-> NoEmail ]
    /\ loginCall' = Idle
    /\ UNCHANGED << liveVars, simVars, hookVars >>

NextAuth ==
    \/ \E email \in Emails, password \in Passwords : login(email, password)
    \/ authAPI_login_resolves
    \/ \E status \in FailureStatuses : authAPI_login_rejects(status)
    \/ login_getCurrentUser_resolves
    \/ \E status \in FailureStatuses : login_getCurrentUser_rejects(status)
    \/ logout
    \/ initAuth
    \/ initAuth_getCurrentUser_resolves
    \/ \E status \in FailureStatuses : initAuth_getCurrentUser_rejects(status)

SpecAuth == Init /\ [][NextAuth]_vars

\* ----------------------------------------------- client: Simulation page

\* handleStartSimulation up to its await. The Start button is rendered while
\* isRunning is false. simCall.stopped is a history field: Stop has run to
\* its end and Start has not been clicked since.
handleStartSimulation ==
    /\ ~isRunning
    /\ simCall.starting < MaxPending
    /\ intervals + simCall.starting < MaxIntervals
    /\ isRunning' = TRUE
    /\ simCall' = [ simCall EXCEPT !.starting = @ + 1, !.stopped = FALSE ]
    /\ UNCHANGED << liveVars, authVars, progress, currentSimulationId, intervals, hookVars >>

\* startSimulation resolves: the id is kept and setInterval starts a timer.
startSimulation_resolves ==
    /\ simCall.starting > 0
    /\ currentSimulationId' = TRUE
    /\ intervals' = intervals + 1
    /\ simCall' = [ simCall EXCEPT !.starting = @ - 1 ]
    /\ UNCHANGED << liveVars, authVars, isRunning, progress, hookVars >>

\* startSimulation rejects: the catch branch sets isRunning and starts a
\* timer.
startSimulation_rejects ==
    /\ simCall.starting > 0
    /\ isRunning' = TRUE
    /\ intervals' = intervals + 1
    /\ simCall' = [ simCall EXCEPT !.starting = @ - 1 ]
    /\ UNCHANGED << liveVars, authVars, progress, currentSimulationId, hookVars >>

\* One timer fires: at the end it clears itself and sets isRunning false,
\* before the end it adds a step.
interval_fires ==
    /\ intervals > 0
    /\ IF progress >= ProgressEnd
       THEN /\ intervals' = intervals - 1
            /\ isRunning' = FALSE
            /\ progress' = ProgressEnd
       ELSE /\ progress' = progress + ProgressStep
            /\ UNCHANGED << intervals, isRunning >>
    /\ UNCHANGED << liveVars, authVars, currentSimulationId, simCall, hookVars >>

\* handleStopSimulation, to its await when an id is held and to its end
\* otherwise. The Stop button is rendered while isRunning is true.
handleStopSimulation ==
    /\ isRunning
    /\ simCall.stopping = 0
    /\ IF currentSimulationId
       THEN /\ simCall' = [ simCall EXCEPT !.stopping = 1 ]
            /\ UNCHANGED << isRunning, progress, currentSimulationId >>
       ELSE /\ isRunning' = FALSE
            /\ progress' = 0
            /\ currentSimulationId' = FALSE
            /\ simCall' = [ simCall EXCEPT !.stopped = TRUE ]
    /\ UNCHANGED << liveVars, authVars, intervals, hookVars >>

\* stopSimulation resolves or rejects: handleStopSimulation runs to its end.
stopSimulation_settles ==
    /\ simCall.stopping > 0
    /\ isRunning' = FALSE
    /\ progress' = 0
    /\ currentSimulationId' = FALSE
    /\ simCall' = [ simCall EXCEPT !.stopping = 0, !.stopped = TRUE ]
    /\ UNCHANGED << liveVars, authVars, intervals, hookVars >>

NextSimulation ==
    \/ handleStartSimulation
    \/ startSimulation_resolves
    \/ startSimulation_rejects
    \/ interval_fires
    \/ handleStopSimulation
    \/ stopSimulation_settles

SpecSimulation == Init /\ [][NextSimulation]_vars

\* ------------------------------------- client: the hook's users, wsService

\* The components that call useRealTimeData: the Header, which the Layout
\* keeps in place, and the page the router shows.
Pages == {"Dashboard", "Alerts", "Transactions"}
HookUsers == {"Header"} \cup Pages

\* The sockets of the frontend that are open.
OpenSockets == { s \in DOMAIN sockets : sockets[s] = "open" }

\* The effect of useRealTimeData in component h, for a token of the real
\* backend: wsService.on registers h's listeners and wsService.connect
\* assigns a new WebSocket to this.ws.
useRealTimeData_effect(h) ==
    /\ h \notin hooks
    /\ h \in Pages => hooks \cap Pages = {}
    /\ Len(sockets) < MaxSockets
    /\ hooks' = hooks \cup {h}
    /\ sockets' = Append(sockets, "connecting")
    /\ wsService' = [ ws |-> Len(sockets) + 1, listeners |-> wsService.listeners \cup {h} ]
    /\ UNCHANGED << liveVars, authVars, simVars >>

\* The effect's cleanup in component h: wsService.off removes h's listeners
\* and wsService.disconnect closes this.ws, if any, and sets it to null.
useRealTimeData_cleanup(h) ==
    /\ h \in hooks
    /\ hooks' = hooks \ {h}
    /\ sockets' = IF wsService.ws # 0
                  THEN [ sockets EXCEPT ![wsService.ws] = "closed" ]
                  ELSE sockets
    /\ wsService' = [ ws |-> 0, listeners |-> wsService.listeners \ {h} ]
    /\ UNCHANGED << liveVars, authVars, simVars >>

\* The backend accepts the connection of socket s.
ws_onopen(s) ==
    /\ s \in DOMAIN sockets
    /\ sockets[s] = "connecting"
    /\ sockets' = [ sockets EXCEPT ![s] = "open" ]
    /\ UNCHANGED << liveVars, authVars, simVars, hooks, wsService >>

\* The backend or the network closes socket s; wsService does not connect
\* again.
ws_onclose(s) ==
    /\ s \in DOMAIN sockets
    /\ sockets[s] \in {"connecting", "open"}
    /\ sockets' = [ sockets EXCEPT ![s] = "closed" ]
    /\ UNCHANGED << liveVars, authVars, simVars, hooks, wsService >>

NextHooks ==
    \/ \E h \in HookUsers : useRealTimeData_effect(h)
    \/ \E h \in HookUsers : useRealTimeData_cleanup(h)
    \/ \E s \in 1..MaxSockets : ws_onopen(s)
    \/ \E s \in 1..MaxSockets : ws_onclose(s)

SpecHooks == Init /\ [][NextHooks]_vars

\* -------------------------------------------------------------- properties

\* The edge table of the alert status machine.
AllowedEdges ==
    { << "open", "investigating" >>, << "open", "resolved" >>,
      << "open", "false_positive" >>, << "investigating", "resolved" >>,
      << "investigating", "false_positive" >>, << "investigating", "open" >> }

\* The account an alert is attributable to: the user_id of its transaction
\* row.  A mock alert's transaction has no such row and no account.
AlertOwner(alert) ==
    IF alert.transactionId \in DOMAIN transactions
    THEN transactions[alert.transactionId].user_id
    ELSE NoUser

\* The visibility rule: an admin sees every alert, an analyst the alerts of
\* their bank, a client the alerts of their bank on their own account, and
\* any other role nothing.
CanSee(alert, viewer) ==
    CASE viewer.role = "admin" -> TRUE
      [] viewer.role = "analyst" -> viewer.bankId = alert.bankId
      [] viewer.role = "client" -> /\ viewer.bankId = alert.bankId
                                   /\ AlertOwner(alert) = viewer.id
      [] OTHER -> FALSE

KnownRoles == {"admin", "analyst", "client"}

\* C1: every change of a stored alert's status, and every change updateAlert
\* makes to the status of an alert a tab holds, follows one of the six
\* allowed edges; a resolved or false_positive alert never changes status.
C1_StatusFollowsEdges ==
    [][ /\ \A a \in DOMAIN alertsDb :
              alertsDb'[a].status # alertsDb[a].status
                  => << alertsDb[a].status, alertsDb'[a].status >> \in AllowedEdges
        /\ \A c \in Clients :
              updateAlert(c) =>
                  \A i \in DOMAIN alerts[c] :
                      alerts'[c][i].status # alerts[c][i].status
                          => << alerts[c][i].status, alerts'[c][i].status >> \in AllowedEdges
      ]_vars

\* C2: an update request whose (stored status, requested status) pair is not
\* an allowed edge is refused and leaves the stored alert as it was.
C2_InvalidTransitionRefused ==
    [][ \A c \in Clients :
          ( /\ update_alert_status(c)
            /\ put[c].alertId \in DOMAIN alertsDb
            /\ get_analyst_or_admin_user(UserById(put[c].user))
            /\ << alertsDb[put[c].alertId].status, AlertUpdate(put[c].body).status >>
                   \notin AllowedEdges )
          => ( /\ alertsDb' = alertsDb
               /\ put'[c].resp.code # 200 )
      ]_vars

\* C3: of two update requests for the same alert that carry the same
\* expected version, at most one succeeds.
C3_OneWinnerPerVersion ==
    \A c, d \in Clients :
        ( /\ c # d
          /\ put[c].state = "responded"
          /\ put[d].state = "responded"
          /\ put[c].alertId = put[d].alertId
          /\ put[c].expectedVersion = put[d].expectedVersion )
        => ~ ( put[c].resp.code = 200 /\ put[d].resp.code = 200 )

\* C4: the store holds at most one alert per ingested event.
C4_OneAlertPerEvent ==
    \A a, b \in DOMAIN alertsDb :
        transactions[alertsDb[a].transactionId].event
            = transactions[alertsDb[b].transactionId].event
        => a = b

\* C5: once a tab has applied its pull and read every frame pushed to it,
\* it holds each alert once, with the status and version of the stored row.
C5_ClientConvergesToSnapshot ==
    \A c \in Clients :
        ( /\ pull[c].state = "done"
          /\ ws[c] # 0
          /\ wsInbox[ws[c]] = << >>
          /\ fanout = Idle )
        => \A i \in DOMAIN alerts[c] :
              alerts[c][i].id \in DOMAIN alertsDb =>
                  /\ \A j \in DOMAIN alerts[c] :
                         alerts[c][j].id = alerts[c][i].id => j = i
                  /\ alerts[c][i].status = alertsDb[alerts[c][i].id].status
                  /\ alerts[c][i].version = alertsDb[alerts[c][i].id].version

\* C6: every alert loadInitialData sets for an admin, analyst or client
\* viewer is one the viewer may see.
C6_PullRespectsCanSee ==
    [][ \A c \in Clients :
          ( /\ loadInitialData(c)
            /\ UserById(clientUser[c]).role \in KnownRoles )
          => \A i \in DOMAIN alerts'[c] :
                 CanSee(alerts'[c][i], UserById(clientUser[c]))
      ]_vars

\* C7: a frame is written to a socket only if the socket's user may see the
\* alert the frame is about.
C7_PushOnlyIfCanSee ==
    [][ \A k \in DOMAIN wsInbox :
          Len(wsInbox'[k]) > Len(wsInbox[k])
          => CanSee(alertsDb[wsInbox'[k][Len(wsInbox'[k])].id],
                    UserById(conns[k].user))
      ]_vars

\* C8: when an alert is created, the fan-out that starts takes in every
\* registered open socket whose user may see the alert.
C8_PushToEveryAuthorizedSession ==
    [][ Len(alertsDb') > Len(alertsDb)
        => \A k \in DOMAIN conns :
              ( /\ conns[k].state = "open"
                /\ RegisteredIn(active_connections, k)
                /\ CanSee(alertsDb'[Len(alertsDb')], UserById(conns[k].user)) )
              => ( /\ fanout'.state = "sending"
                   /\ k \in Range(active_connections[fanout'.user_id]) )
      ]_vars

\* C9: a send that fails on a socket leaves the fan-out running for the
\* sockets after it and takes the failing socket out of the registry.
C9_FailedSendUnregisters ==
    [][ ( /\ send_personal_message
          /\ conns[fanout.cur].state # "open" )
        => ( /\ ~ RegisteredIn(active_connections', fanout.cur)
             /\ fanout.idx < Len(IteratedList) => fanout'.state = "sending" )
      ]_vars

\* C10: a tab whose user has a role other than admin, analyst and client
\* never holds an alert.
C10_UnknownRoleHoldsNothing ==
    \A c \in Clients :
        UserById(clientUser[c]).role \notin KnownRoles => alerts[c] = << >>

Count(s, x) == Cardinality({ i \in DOMAIN s : s[i] = x })

\* C11: when a fan-out ends, no socket of the list it started on has been
\* sent to twice, and every socket of that list that is still registered
\* has been sent to once, whatever was unregistered in between.
C11_FanoutSkipsNobody ==
    [][ ( /\ fanout.state = "sending"
          /\ fanout'.state = "idle" )
        => LET attempted == Append(fanout.attempted, fanout.cur)
           IN \A k \in Range(fanout.enumerated) :
                 /\ Count(attempted, k) <= 1
                 /\ RegisteredIn(active_connections, k) => Count(attempted, k) = 1
      ]_vars

\* C12: connect on a socket that is already registered leaves the registry
\* as it was, so the socket is in the registry once.
C12_ConnectIdempotent ==
    [][ \A k \in 1..MaxConns, user_id \in CallerUserIds :
          ( /\ connect_call(k, user_id)
            /\ RegisteredIn(active_connections, k) )
          => active_connections' = active_connections
      ]_vars

\* C13: disconnect on a socket that is in no list, be it never registered
\* or already removed, returns and leaves the registry as it was.
C13_DisconnectAbsentIsNoOp ==
    [][ \A k \in 1..MaxConns :
          ( /\ disconnect_call(k)
            /\ ~ RegisteredIn(active_connections, k) )
          => active_connections' = active_connections
      ]_vars

\* A disconnect of an absent socket has returned while other sockets are
\* registered.
C13_Witness ==
    /\ lastCall.op = "disconnect"
    /\ ~ lastCall.present
    /\ active_connections # << >>

\* C14: after every step, a registered socket is one whose token resolved
\* to a user and that was accepted, an open socket is registered, and the
\* endpoint's cleanup for a closed socket leaves it out of the registry.
C14_RegistryLifecycle ==
    [][ /\ \A k \in DOMAIN conns' :
              /\ RegisteredIn(active_connections', k)
                    => /\ conns'[k].user # NoUser
                       /\ conns'[k].state \in {"open", "closed"}
              /\ conns'[k].state = "open" => RegisteredIn(active_connections', k)
        /\ \A u \in DOMAIN active_connections' :
              Range(active_connections'[u]) \subseteq DOMAIN conns'
        /\ \A k \in DOMAIN conns :
              websocket_closed(k) => ~ RegisteredIn(active_connections', k)
      ]_vars

\* A socket without a valid token has been refused, and a socket that was
\* registered has closed and been removed.
C14_Witness ==
    /\ \E k \in DOMAIN conns :
          /\ conns[k].user = NoUser
          /\ conns[k].state = "closed"
    /\ \E k \in DOMAIN conns :
          /\ conns[k].user # NoUser
          /\ conns[k].state = "closed"
          /\ ~ Registered(k)
          /\ wsInbox[k] = << >>
          /\ \A c \in Clients : ws[c] # k

\* C14 as stated: at every state the registered sockets are exactly the
\* authenticated sockets that are open.
C14_RegistryExactlyOpen ==
    \A k \in DOMAIN conns :
        Registered(k) <=> ( conns[k].user # NoUser /\ conns[k].state = "open" )

\* C15: a tab's alert list never holds two entries with the same alert id.
C15_NoDuplicateEntries ==
    \A c \in Clients :
        \A i, j \in DOMAIN alerts[c] :
            alerts[c][i].id = alerts[c][j].id => i = j

C17_FailedUpdateNotApplied ==
    [][ \A c \in Clients :
          ( /\ updateAlert(c)
            /\ put[c].resp.code # 200 )
          => alerts'[c] = alerts[c]
      ]_vars

\* C18: a successful update to investigating gives an alert without an
\* assignee the acting user as assignee and keeps an assignee already set;
\* a successful update to open clears the assignee.
C18_AssigneeRules ==
    [][ \A c \in Clients :
          ( /\ update_alert_status(c)
            /\ put'[c].resp.code = 200 )
          => LET id == put[c].alertId
                 target == alertsDb'[id].status
             IN /\ target = "investigating"
                     => alertsDb'[id].assignedTo
                          = IF alertsDb[id].assignedTo = NoUser
                            THEN put[c].user
                            ELSE alertsDb[id].assignedTo
                /\ target = "open" => alertsDb'[id].assignedTo = NoUser
      ]_vars

\* C19: an ingestion creates an alert exactly when the score is at or above
\* the threshold.
C19_AlertIffAtOrAboveThreshold ==
    [][ \A e \in Events :
          add_transaction(e)
          => ( Len(alertsDb') = Len(alertsDb) + 1
               <=> predict_fraud(e) >= FraudThreshold )
      ]_vars

\* C20: an ingestion that fails leaves the transactions and the alerts as
\* they were.
C20_FailedIngestLeavesStore ==
    [][ \A e \in Events :
          add_transaction_fails(e)
          => ( transactions' = transactions /\ alertsDb' = alertsDb )
      ]_vars

\* C21: an update request from a user who may not see the alert is answered
\* 403, not 404 and not 200, and leaves the stored alerts as they were.
C21_UnauthorizedUpdateForbidden ==
    [][ \A c \in Clients :
          ( /\ update_alert_status(c)
            /\ put[c].alertId \in DOMAIN alertsDb
            /\ ~ CanSee(alertsDb[put[c].alertId], UserById(put[c].user)) )
          => ( /\ put'[c].resp.code = 403
               /\ alertsDb' = alertsDb )
      ]_vars

\* C22: an alert is created with status open and no assignee, be it a row
\* add_transaction inserts or an alert generateMockAlerts makes, which
\* loadInitialData takes when the API fails.
C22_CreatedOpenUnassigned ==
    [][ /\ Len(alertsDb') > Len(alertsDb)
            => /\ alertsDb'[Len(alertsDb')].status = "open"
               /\ alertsDb'[Len(alertsDb')].assignedTo = NoUser
        /\ \A c \in Clients :
              ( loadInitialData(c) /\ ~ pull[c].ok )
              => \A i \in DOMAIN alerts'[c] :
                    /\ alerts'[c][i].status = "open"
                    /\ alerts'[c][i].assignedTo = NoUser
      ]_vars

\* What a status update may not touch on an alert.
Immutable(a) == << a.id, a.transactionId, a.bankId, a.fraudProbability >>

\* C23 as stated: update_alert_status changes nothing in the store but the
\* status, assignee and version of the row it is for, and updateAlert
\* changes nothing in the tab's list but the status, assignee and version of
\* the entries of that alert.
C23_UpdateTouchesOnlyStatus ==
    [][ \A c \in Clients :
          /\ update_alert_status(c)
                => /\ Len(alertsDb') = Len(alertsDb)
                   /\ \A a \in DOMAIN alertsDb :
                         IF a = put[c].alertId
                         THEN Immutable(alertsDb'[a]) = Immutable(alertsDb[a])
                         ELSE alertsDb'[a] = alertsDb[a]
          /\ updateAlert(c)
                => /\ Len(alerts'[c]) = Len(alerts[c])
                   /\ \A i \in DOMAIN alerts[c] :
                         IF alerts[c][i].id = put[c].alertId
                         THEN Immutable(alerts'[c][i]) = Immutable(alerts[c][i])
                         ELSE alerts'[c][i] = alerts[c][i]
      ]_vars

\* The frames the server has handed to a socket or is handing out, and the
\* frames the tabs took into their lists.
PushedFrames ==
    (IF fanout.state = "sending" THEN {fanout.alert} ELSE {})
        \cup UNION { Range(wsInbox[k]) : k \in DOMAIN wsInbox }

HeldFor(c) ==
    LET rows == get_alerts(PullBankId(UserById(clientUser[c])))
    IN { rows[i].id : i \in DOMAIN rows }

\* C27: when loadInitialData completes, every alert of the tab's list that
\* the server holds for the tab's user is still in the list.
C27_PullKeepsPushedAlerts ==
    [][ \A c \in Clients :
          loadInitialData(c)
             => \A i \in DOMAIN alerts[c] :
                   alerts[c][i].id \in HeldFor(c)
                      => \E j \in DOMAIN alerts'[c] : alerts'[c][j].id = alerts[c][i].id
      ]_vars

\* C24: login makes the user authenticated only when the backend has
\* verified the email and the password of that call; in every other case
\* login throws and the user stays unauthenticated.
C24_AuthenticatedOnlyWhenVerified ==
    [][ loginCall.state \in {"login", "me"} /\ loginCall'.state \in {"done", "thrown"}
          => IF loginCall'.verified
             THEN TRUE
             ELSE loginCall'.state = "thrown" /\ authUser' = LoggedOut
      ]_vars

\* C30: when login throws, user is null and localStorage holds neither
\* auth_token nor mock_user_email.
C30_FailedLoginLeavesNothing ==
    [][ loginCall.state \in {"login", "me"} /\ loginCall'.state = "thrown"
          => /\ authUser' = LoggedOut
             /\ localStorage'.auth_token = NoToken
             /\ localStorage'.mock_user_email = NoEmail
      ]_vars

\* C29: while isRunning is true and no start is waiting on the API exactly
\* one progress timer is active, while isRunning is false none is, and once
\* Stop has run progress is 0 until Start is clicked again.
C29_OneTimerWhileRunning ==
    /\ isRunning /\ simCall.starting = 0 => intervals = 1
    /\ ~isRunning => intervals = 0
    /\ simCall.stopped => progress = 0

\* C26: a frontend has at most one open WebSocket however many components
\* use useRealTimeData, and once every one of them has cleaned up no
\* WebSocket is open and no listener is registered.
C26_OneSocketPerFrontend ==
    /\ Cardinality(OpenSockets) <= 1
    /\ hooks = {} => OpenSockets = {} /\ wsService.listeners = {}

\* C28: the Alerts page, by its list buttons and by its detail modal, calls
\* updateAlert only with a status that is a successor of the status the
\* alert has in the hook's list at the click; nothing is requested for an
\* alert that is resolved or false_positive there.
C28_PageRequestsOnlySuccessors ==
    [][ \A c \in Clients :
          put[c].state = "idle" /\ put'[c].state = "requested"
             => \A i \in DOMAIN alerts[c] :
                   alerts[c][i].id = put'[c].alertId
                      => << alerts[c][i].status, put'[c].body.status >> \in AllowedEdges
      ]_vars
====
